---- MODULE Spec2Model ----
(***************************************************************************)
(* Model of src/bellows_generator.py: ConicBellowsGenerator.               *)
(*                                                                         *)
(* Python floats are modelled as exact rationals <<n, d>> (d > 0, lowest   *)
(* terms), so that equality of two computed dimensions is equality of the  *)
(* tuples.  Lengths are in millimetres.                                    *)
(***************************************************************************)
EXTENDS Integers, Sequences, FiniteSets, TLC

VARIABLES
    front_w, front_h, rear_w, rear_h,      \* self.front_w .. self.rear_h
    stiffener_height, gap_height, chamfer, \* construction parameters
    face_gap, max_draw, margin,            \* layout parameters
    fold_cycle, num_folds, total_length,   \* derived by __init__
    pc,                                    \* position in main()
    raised,                                \* exception that ended the run
    files                                  \* files written by generate_svg

vars == <<front_w, front_h, rear_w, rear_h, stiffener_height, gap_height,
          chamfer, face_gap, max_draw, margin, fold_cycle, num_folds,
          total_length, pc, raised, files>>

args == <<front_w, front_h, rear_w, rear_h, stiffener_height, gap_height,
          chamfer, face_gap, max_draw, margin>>

plan == <<fold_cycle, num_folds, total_length>>

----------------------------------------------------------------------------
\* Bounds of the explored inputs.

MaxDim == 2
MaxStiffener == 2
MaxGap == 1
MaxChamferHalves == 1
MaxDraw == 8

----------------------------------------------------------------------------
\* Exact arithmetic standing for Python float arithmetic.

Abs(a) == IF a < 0 THEN -a ELSE a

RECURSIVE Gcd(_, _)
Gcd(a, b) == IF b = 0 THEN a ELSE Gcd(b, a % b)

\* n/d in lowest terms with a positive denominator (d # 0).
Rat(n, d) ==
    LET s == IF d < 0 THEN -1 ELSE 1
        g == Gcd(Abs(n), Abs(d))
    IN  <<(s * n) \div g, (s * d) \div g>>

FromInt(k) == <<k, 1>>

RAdd(a, b) == Rat(a[1] * b[2] + b[1] * a[2], a[2] * b[2])
RSub(a, b) == Rat(a[1] * b[2] - b[1] * a[2], a[2] * b[2])
RMul(a, b) == Rat(a[1] * b[1], a[2] * b[2])
\* a / b for b # 0
RDiv(a, b) == Rat(a[1] * b[2], a[2] * b[1])
RHalf(a)   == Rat(a[1], 2 * a[2])
RLt(a, b)  == a[1] * b[2] < b[1] * a[2]
RLe(a, b)  == a[1] * b[2] <= b[1] * a[2]
RZero      == <<0, 1>>

\* Python int(x): truncation toward zero.
PyInt(a) == IF a[1] >= 0 THEN a[1] \div a[2] ELSE -((-a[1]) \div a[2])

PyMax(a, b) == IF a >= b THEN a ELSE b

----------------------------------------------------------------------------
\* Keyword defaults of ConicBellowsGenerator.__init__ (and of main()).

DefaultFrontW == 96
DefaultFrontH == 96
DefaultRearW == 145
DefaultRearH == 145
DefaultStiffenerHeight == 12
DefaultGapHeight == Rat(5, 2)
DefaultChamfer == Rat(3, 2)
DefaultFaceGap == 5
DefaultMaxDraw == 300
DefaultMargin == 30

Unset == "unset"

----------------------------------------------------------------------------
\* Arguments a caller can pass.  argparse takes any float, so zero and
\* negative construction parameters are among them.

DimValues       == { FromInt(k) : k \in 1..MaxDim }
StiffenerValues == { FromInt(k) : k \in -1..MaxStiffener }
GapValues       == { FromInt(k) : k \in -1..MaxGap }
ChamferValues   == { Rat(k, 2) : k \in 0..MaxChamferHalves }
DrawValues      == { FromInt(k) : k \in -2..MaxDraw }
MarginValues    == { RZero, FromInt(DefaultMargin) }

InitDerived ==
    /\ fold_cycle = Unset
    /\ num_folds = Unset
    /\ total_length = Unset
    /\ pc = "new"
    /\ raised = "none"
    /\ files = << >>

InitBounded ==
    /\ front_w \in DimValues
    /\ front_h \in DimValues
    /\ rear_w \in DimValues
    /\ rear_h \in DimValues
    /\ stiffener_height \in StiffenerValues
    /\ gap_height \in GapValues
    /\ chamfer \in ChamferValues
    /\ face_gap = FromInt(DefaultFaceGap)
    /\ max_draw \in DrawValues
    /\ margin \in MarginValues

\* The default configuration, with the default draw and a draw of 310.
InitDefault ==
    /\ front_w = FromInt(DefaultFrontW)
    /\ front_h = FromInt(DefaultFrontH)
    /\ rear_w = FromInt(DefaultRearW)
    /\ rear_h = FromInt(DefaultRearH)
    /\ stiffener_height = FromInt(DefaultStiffenerHeight)
    /\ gap_height = DefaultGapHeight
    /\ chamfer = DefaultChamfer
    /\ face_gap = FromInt(DefaultFaceGap)
    /\ max_draw \in { FromInt(DefaultMaxDraw), FromInt(DefaultMaxDraw + 10) }
    /\ margin = FromInt(DefaultMargin)

Init == (InitBounded \/ InitDefault) /\ InitDerived

----------------------------------------------------------------------------
\* ConicBellowsGenerator.__init__, lines 64-71.

\* int(self.max_draw / self.fold_cycle), for fc # 0
RawFolds(md, fc) == PyInt(RDiv(md, fc))

\* Mutant: the odd count is kept.
ForceEven_Kept(n) == n

\* if self.num_folds % 2 != 0: self.num_folds -= 1
ForceEven(n) == IF n % 2 # 0 THEN n - 1 ELSE n

Construct ==
    /\ pc = "new"
    /\ LET fc == RAdd(stiffener_height, gap_height) IN
        /\ fold_cycle' = fc
        /\ IF fc = RZero
           THEN \* float division by zero
                /\ raised' = "ZeroDivisionError"
                /\ pc' = "raised"
                /\ UNCHANGED <<num_folds, total_length>>
           ELSE LET n == ForceEven(RawFolds(max_draw, fc)) IN
                /\ num_folds' = n
                /\ total_length' = RMul(FromInt(n), fc)
                /\ raised' = "none"
                /\ pc' = "constructed"
    /\ UNCHANGED <<args, files>>

----------------------------------------------------------------------------
\* Dimension interpolation, lines 73-105.  Both read self.num_folds.

\* fold_index // 2 (floor division, also for a negative index)
PairIndex(fold_index) == fold_index \div 2

\* Mutant: the ratio is taken over num_pairs instead of num_pairs - 1.
get_pair_dimension_OverPairs(fold_index, dim_small, dim_large) ==
    LET pair_index == PairIndex(fold_index)
        num_pairs  == num_folds \div 2
        ratio      == Rat(pair_index, PyMax(num_pairs, 1))
    IN  RAdd(dim_small, RMul(RSub(dim_large, dim_small), ratio))

get_pair_dimension(fold_index, dim_small, dim_large) ==
    LET pair_index == PairIndex(fold_index)
        num_pairs  == num_folds \div 2
        ratio      == Rat(pair_index, PyMax(num_pairs - 1, 1))
    IN  RAdd(dim_small, RMul(RSub(dim_large, dim_small), ratio))

\* Mutant: the ratio is taken over num_folds instead of num_folds - 1.
get_continuous_dimension_OverFolds(fold_index, dim_small, dim_large) ==
    LET ratio == Rat(fold_index, PyMax(num_folds, 1))
    IN  RAdd(dim_small, RMul(RSub(dim_large, dim_small), ratio))

get_continuous_dimension(fold_index, dim_small, dim_large) ==
    LET ratio == Rat(fold_index, PyMax(num_folds - 1, 1))
    IN  RAdd(dim_small, RMul(RSub(dim_large, dim_small), ratio))

----------------------------------------------------------------------------
\* create_trapezoid, lines 107-162.

\* Mutant: no special handling of the last pair.
TrapezoidWidths_NoLastPair(fold_index) ==
    LET base_width   == get_pair_dimension(fold_index, front_w, rear_w)
        current_pair == fold_index \div 2
        next_width   == get_pair_dimension((current_pair + 1) * 2, front_w, rear_w)
    IN  IF fold_index % 2 = 0
        THEN <<base_width, next_width>>
        ELSE <<next_width, base_width>>

\* Mutant: odd folds of a normal pair are not flipped.
TrapezoidWidths_NoFlip(fold_index) ==
    LET base_width   == get_pair_dimension(fold_index, front_w, rear_w)
        current_pair == fold_index \div 2
        num_pairs    == num_folds \div 2
    IN  IF current_pair = num_pairs - 1
        THEN LET prev_pair_width ==
                     get_pair_dimension((num_pairs - 2) * 2, front_w, rear_w)
             IN  IF fold_index % 2 = 0
                 THEN <<prev_pair_width, rear_w>>
                 ELSE <<rear_w, prev_pair_width>>
        ELSE LET next_width ==
                     get_pair_dimension((current_pair + 1) * 2, front_w, rear_w)
             IN  <<base_width, next_width>>

\* Mutant: the parity test is inverted.
TrapezoidWidths_ParityInverted(fold_index) ==
    LET base_width   == get_pair_dimension(fold_index, front_w, rear_w)
        current_pair == fold_index \div 2
        num_pairs    == num_folds \div 2
    IN  IF current_pair = num_pairs - 1
        THEN LET prev_pair_width ==
                     get_pair_dimension((num_pairs - 2) * 2, front_w, rear_w)
             IN  IF fold_index % 2 = 1
                 THEN <<prev_pair_width, rear_w>>
                 ELSE <<rear_w, prev_pair_width>>
        ELSE LET next_width ==
                     get_pair_dimension((current_pair + 1) * 2, front_w, rear_w)
             IN  IF fold_index % 2 = 1
                 THEN <<base_width, next_width>>
                 ELSE <<next_width, base_width>>

\* <<width_top, width_bottom>> of lines 122-145
TrapezoidWidths(fold_index) ==
    LET base_width   == get_pair_dimension(fold_index, front_w, rear_w)
        current_pair == fold_index \div 2
        num_pairs    == num_folds \div 2
    IN  IF current_pair = num_pairs - 1
        THEN LET prev_pair_width ==
                     get_pair_dimension((num_pairs - 2) * 2, front_w, rear_w)
             IN  IF fold_index % 2 = 0
                 THEN <<prev_pair_width, rear_w>>
                 ELSE <<rear_w, prev_pair_width>>
        ELSE LET next_width ==
                     get_pair_dimension((current_pair + 1) * 2, front_w, rear_w)
             IN  IF fold_index % 2 = 0
                 THEN <<base_width, next_width>>
                 ELSE <<next_width, base_width>>

\* y_top of lines 148 and 177
YTop(fold_index) == RAdd(margin, RMul(FromInt(fold_index), fold_cycle))

\* Mutant: the bottom is a whole fold cycle below the top.
YBottom_WholeCycle(y_top) == RAdd(y_top, fold_cycle)

\* y_bottom of lines 149 and 178
YBottom(y_top) == RAdd(y_top, stiffener_height)

\* The four points of lines 156-161 and 181-186: top-left, top-right,
\* bottom-right, bottom-left.
ChamferedPoints(x_center, hw_top, hw_bottom, y_top, y_bottom) ==
    << <<RAdd(RSub(x_center, hw_top), chamfer), y_top>>,
       <<RSub(RAdd(x_center, hw_top), chamfer), y_top>>,
       <<RSub(RAdd(x_center, hw_bottom), chamfer), y_bottom>>,
       <<RAdd(RSub(x_center, hw_bottom), chamfer), y_bottom>> >>

create_trapezoid(fold_index, x_center) ==
    LET w        == TrapezoidWidths(fold_index)
        y_top    == YTop(fold_index)
        y_bottom == YBottom(y_top)
    IN  ChamferedPoints(x_center, RHalf(w[1]), RHalf(w[2]), y_top, y_bottom)

\* create_rectangle, lines 164-187.
create_rectangle(fold_index, x_center) ==
    LET width    == get_continuous_dimension(fold_index, front_h, rear_h)
        y_top    == YTop(fold_index)
        y_bottom == YBottom(y_top)
        hw       == RHalf(width)
    IN  ChamferedPoints(x_center, hw, hw, y_top, y_bottom)

----------------------------------------------------------------------------
\* generate_svg, lines 197-301.  A file is modelled by its canvas and the
\* point lists handed to points_to_path, in the order they are appended.

\* Mutant: the loop stops one fold early.
RangeLen_OneShort(n) == IF n > 0 THEN n - 1 ELSE 0

\* Number of iterations of "for i in range(n)".
RangeLen(n) == IF n > 0 THEN n ELSE 0

\* canvas_height of lines 224 and 282
CanvasHeight == RAdd(total_length, RMul(FromInt(2), margin))

\* x_face1_center .. x_face4_center of lines 216-220
FaceCenters ==
    LET x_start == margin
        c1 == RAdd(x_start, RHalf(rear_w))
        c2 == RAdd(RAdd(RAdd(c1, RHalf(rear_w)), face_gap), RHalf(rear_h))
        c3 == RAdd(RAdd(RAdd(c2, RHalf(rear_h)), face_gap), RHalf(rear_w))
        c4 == RAdd(RAdd(RAdd(c3, RHalf(rear_w)), face_gap), RHalf(rear_h))
    IN  <<c1, c2, c3, c4>>

\* Shape drawn for face 1..4: TOP, RIGHT, BOTTOM, LEFT.
FaceShape(face) == IF face \in {1, 3} THEN "trapezoid" ELSE "rectangle"

CreateShape(shape_type, fold_index, x_center) ==
    IF shape_type = "trapezoid"
    THEN create_trapezoid(fold_index, x_center)
    ELSE create_rectangle(fold_index, x_center)

\* The paths appended by the loop of lines 230-245: four per fold.
CombinedPaths ==
    LET n == RangeLen(num_folds)
        c == FaceCenters
    IN  [k \in 1..(4 * n) |->
            LET i    == (k - 1) \div 4
                face == ((k - 1) % 4) + 1
            IN  CreateShape(FaceShape(face), i, c[face])]

\* _generate_combined, lines 213-253
GenerateCombined ==
    /\ pc = "constructed"
    /\ LET total_width ==
               RAdd(RAdd(RMul(FromInt(2), rear_w), RMul(FromInt(2), rear_h)),
                    RMul(FromInt(3), face_gap))
       IN  files' = << [name          |-> "combined",
                        canvas_width  |-> RAdd(total_width, RMul(FromInt(2), margin)),
                        canvas_height |-> CanvasHeight,
                        paths         |-> CombinedPaths] >>
    /\ pc' = "done"
    /\ UNCHANGED <<args, plan, raised>>

\* The paths appended by the loop of lines 288-293.
SingleFacePaths(shape_type, x_center) ==
    [k \in 1..RangeLen(num_folds) |-> CreateShape(shape_type, k - 1, x_center)]

\* _generate_single_face, lines 278-301
SingleFace(filename, shape_type, dim_small, dim_large) ==
    LET max_width == dim_large
        x_center  == RAdd(margin, RHalf(max_width))
    IN  [name          |-> filename,
         canvas_width  |-> RAdd(max_width, RMul(FromInt(2), margin)),
         canvas_height |-> CanvasHeight,
         paths         |-> SingleFacePaths(shape_type, x_center)]

\* The four calls of _generate_separate_faces, lines 260-274
SeparateCall(face) ==
    CASE face = 1 -> SingleFace("face1_top", "trapezoid", front_w, rear_w)
      [] face = 2 -> SingleFace("face2_right", "rectangle", front_h, rear_h)
      [] face = 3 -> SingleFace("face3_bottom", "trapezoid", front_w, rear_w)
      [] face = 4 -> SingleFace("face4_left", "rectangle", front_h, rear_h)

\* _generate_separate_faces, one _generate_single_face call per step
GenerateSingleFace ==
    /\ pc \in {"constructed", "separate"}
    /\ LET face == Len(files) + 1 IN
        /\ files' = Append(files, SeparateCall(face))
        /\ pc' = IF face = 4 THEN "done" ELSE "separate"
    /\ UNCHANGED <<args, plan, raised>>

Next == Construct \/ GenerateCombined \/ GenerateSingleFace

Spec == Init /\ [][Next]_vars

----------------------------------------------------------------------------
\* Reading the output back: the quadrilaterals of one face, 1 = TOP,
\* 2 = RIGHT, 3 = BOTTOM, 4 = LEFT, and the dimensions of a quadrilateral.

Faces == 1..4
TrapezoidFaces == {1, 3}
RectangleFaces == {2, 4}

IsCombined == Len(files) = 1 /\ files[1].name = "combined"

FaceGenerated(face) == IsCombined \/ (~IsCombined /\ Len(files) >= face)

\* In the combined file the paths of face f are those at positions
\* f, f + 4, f + 8, ...
FaceQuads(face) ==
    IF IsCombined
    THEN LET p == files[1].paths
             n == Cardinality({k \in 1..Len(p) : (k - 1) % 4 = face - 1})
         IN  [i \in 1..n |-> p[4 * (i - 1) + face]]
    ELSE files[face].paths

\* Quad(face, i): the quadrilateral of fold index i (0-based).
Quad(face, i) == FaceQuads(face)[i + 1]

FoldIndices(face) == 0..(Len(FaceQuads(face)) - 1)

\* A point list [top-left, top-right, bottom-right, bottom-left] has its
\* long edges inset by chamfer on each side.
WidthTop(q)    == RAdd(RSub(q[2][1], q[1][1]), RMul(FromInt(2), chamfer))
WidthBottom(q) == RAdd(RSub(q[3][1], q[4][1]), RMul(FromInt(2), chamfer))
QYTop(q)       == q[1][2]
QYBottom(q)    == q[3][2]

\* The preconditions of the fold plan contract.
ValidPlanInput ==
    /\ RLt(RZero, stiffener_height)
    /\ RLe(RZero, gap_height)
    /\ RLe(RZero, max_draw)

\* small + (large - small) * p / max(numPairs - 1, 1), as the specification
\* defines paired interpolation.
PairedValue(p, small, large) ==
    LET numPairs == num_folds \div 2
        den      == IF numPairs - 1 > 1 THEN numPairs - 1 ELSE 1
    IN  <<small[1] * large[2] * den + (large[1] * small[2] - small[1] * large[2]) * p,
          small[2] * large[2] * den>>

REq(a, b) == a[1] * b[2] = b[1] * a[2]

----------------------------------------------------------------------------
\* C1: for every configuration with stiffenerHeight > 0, gapHeight >= 0 and
\* maxDraw >= 0 the constructor succeeds and sets numFolds to
\* floor(maxDraw / foldCycle) decremented by one if odd, so numFolds is even
\* and >= 0, and totalLength = numFolds x foldCycle; cycle 14.5 with draw 300
\* and with draw 310 both give numFolds = 20 and totalLength = 290.
Thm_C1_FoldPlan ==
    (pc # "new" /\ ValidPlanInput) =>
        LET cycle == RAdd(stiffener_height, gap_height) IN
        /\ raised = "none"
        /\ num_folds \in Nat
        /\ num_folds % 2 = 0
        /\ \E q \in 0..(max_draw[1] * cycle[2]) :
              /\ RLe(RMul(FromInt(q), cycle), max_draw)
              /\ RLt(max_draw, RMul(FromInt(q + 1), cycle))
              /\ num_folds = IF q % 2 = 1 THEN q - 1 ELSE q
        /\ REq(total_length, RMul(FromInt(num_folds), cycle))
        /\ (cycle = Rat(29, 2) /\ max_draw \in {FromInt(300), FromInt(310)}) =>
              (num_folds = 20 /\ total_length = FromInt(290))

\* C1 witness: scenario B, where the raw count 21 is odd and is decremented.
Wit_C1_OddDecremented ==
    /\ pc = "constructed"
    /\ ValidPlanInput
    /\ max_draw = FromInt(310)
    /\ fold_cycle = Rat(29, 2)
    /\ RLe(RMul(FromInt(21), fold_cycle), max_draw)
    /\ num_folds = 20

\* C2: a construction with stiffenerHeight <= 0, gapHeight < 0 or
\* maxDraw < 0 ends in an InvalidConfiguration error reported before any
\* fold count is computed: no fold plan, no division by zero.
Cex_C2_InvalidRejected ==
    (pc # "new" /\ ~ValidPlanInput) =>
        /\ raised = "InvalidConfiguration"
        /\ num_folds = Unset
        /\ total_length = Unset

\* C3: for every valid fold plan, each of the four faces, in combined and in
\* separate-faces mode, holds exactly numFolds quadrilaterals of four points;
\* with maxDraw < foldCycle every face is empty, and generation ends without
\* an error with all faces written.
Thm_C3_FaceLength ==
    ValidPlanInput =>
        /\ \A face \in Faces : FaceGenerated(face) =>
              /\ Len(FaceQuads(face)) = num_folds
              /\ \A i \in FoldIndices(face) : Len(Quad(face, i)) = 4
              /\ (RLt(max_draw, RAdd(stiffener_height, gap_height))
                    => FaceQuads(face) = << >>)
        /\ pc \in {"separate", "done"} => raised = "none"
        /\ pc = "done" => \A face \in Faces : FaceGenerated(face)
        /\ (pc = "done" /\ IsCombined) => Len(files[1].paths) = 4 * num_folds

\* C3 witness: the degenerate plan written as four separate, empty faces.
Wit_C3_EmptyFaces ==
    /\ pc = "done"
    /\ ValidPlanInput
    /\ RLt(max_draw, fold_cycle)
    /\ num_folds = 0
    /\ Len(files) = 4
    /\ \A face \in Faces : FaceQuads(face) = << >>

\* C4, as claimed: for a valid plan with numFolds >= 2 the bottom width of the last fold of a
\* trapezoid face equals rearWidth.
Cex_C4_LastBottomIsRear ==
    \A face \in TrapezoidFaces :
        (FaceGenerated(face) /\ ValidPlanInput /\ num_folds >= 2) =>
            WidthBottom(Quad(face, num_folds - 1)) = rear_w

\* C4, amended: for numFolds >= 2 the edge that lies at rearWidth is the edge
\* shared by the last pair (bottom of fold numFolds - 2, top of fold
\* numFolds - 1); the bottom width of the last fold is the previous pair's
\* width frontWidth + (rearWidth - frontWidth) x (numPairs - 2) /
\* max(numPairs - 1, 1), which is rearWidth only when frontWidth = rearWidth.
Thm_C4_RearAtLastPairSeam ==
    \A face \in TrapezoidFaces :
        (FaceGenerated(face) /\ num_folds >= 2) =>
            LET last == Quad(face, num_folds - 1)
                prev == Quad(face, num_folds - 2)
            IN  /\ WidthTop(last) = rear_w
                /\ WidthBottom(prev) = rear_w
                /\ REq(WidthBottom(last),
                       PairedValue((num_folds \div 2) - 2, front_w, rear_w))
                /\ (WidthBottom(last) = rear_w) <=> (front_w = rear_w)

\* C4 witness: a tapered trapezoid face of at least two pairs whose last
\* fold ends narrower than the rear.
Wit_C4_LastPairWritten ==
    /\ FaceGenerated(1)
    /\ num_folds >= 4
    /\ RLt(front_w, rear_w)
    /\ WidthTop(Quad(1, num_folds - 1)) = rear_w
    /\ RLt(WidthBottom(Quad(1, num_folds - 1)), rear_w)

\* C5: in every trapezoid face and every pair k, the last pair included, the
\* bottom width of fold 2k equals the top width of fold 2k + 1.
Thm_C5_SeamInsidePair ==
    \A face \in TrapezoidFaces :
        FaceGenerated(face) =>
            \A k \in 0..((Len(FaceQuads(face)) \div 2) - 1) :
                WidthBottom(Quad(face, 2 * k)) = WidthTop(Quad(face, 2 * k + 1))

\* C5 witness: a tapered trapezoid face of three pairs or more, so that
\* normal pairs with different seams and the last pair are all present.
Wit_C5_SeveralPairs ==
    /\ FaceGenerated(3)
    /\ Len(FaceQuads(3)) >= 6
    /\ front_w # rear_w
    /\ WidthBottom(Quad(3, 0)) # WidthBottom(Quad(3, 2))

\* C6, as claimed: for a valid plan, the edge where the two trapezoids of pair k meet has the
\* pair's own base width frontWidth + (rearWidth - frontWidth) x k /
\* max(numPairs - 1, 1).
Cex_C6_SeamIsOwnBase ==
    \A face \in TrapezoidFaces :
        (FaceGenerated(face) /\ ValidPlanInput) =>
            \A k \in 0..((Len(FaceQuads(face)) \div 2) - 1) :
                /\ REq(WidthBottom(Quad(face, 2 * k)), PairedValue(k, front_w, rear_w))
                /\ REq(WidthTop(Quad(face, 2 * k + 1)), PairedValue(k, front_w, rear_w))

\* C6, amended: the edge where the two trapezoids of pair k meet has the
\* adjacent width, the same for both folds: the next pair's paired value
\* frontWidth + (rearWidth - frontWidth) x (k + 1) / max(numPairs - 1, 1)
\* for a pair that is not the last, and rearWidth for the last pair.  The
\* pair's own base width is the width of its outer edges (top of fold 2k,
\* bottom of fold 2k + 1) for every pair that is not the last.
Thm_C6_SeamIsAdjacentWidth ==
    \A face \in TrapezoidFaces :
        FaceGenerated(face) =>
            LET numPairs == Len(FaceQuads(face)) \div 2 IN
            \A k \in 0..(numPairs - 1) :
                LET even == Quad(face, 2 * k)
                    odd  == Quad(face, 2 * k + 1)
                IN  IF k = numPairs - 1
                    THEN /\ WidthBottom(even) = rear_w
                         /\ WidthTop(odd) = rear_w
                    ELSE /\ REq(WidthBottom(even), PairedValue(k + 1, front_w, rear_w))
                         /\ REq(WidthTop(odd), PairedValue(k + 1, front_w, rear_w))
                         /\ REq(WidthTop(even), PairedValue(k, front_w, rear_w))
                         /\ REq(WidthBottom(odd), PairedValue(k, front_w, rear_w))

\* C6 witness: a tapered face of four pairs, whose pair 1 meets at the width
\* of pair 2 and not at its own.
Wit_C6_InnerPair ==
    /\ FaceGenerated(1)
    /\ Len(FaceQuads(1)) = 8
    /\ RLt(front_w, rear_w)
    /\ REq(WidthBottom(Quad(1, 2)), PairedValue(2, front_w, rear_w))
    /\ ~REq(WidthBottom(Quad(1, 2)), PairedValue(1, front_w, rear_w))

\* C7: on a rectangle face the widths are non-decreasing in the fold index
\* when frontHeight < rearHeight and non-increasing when frontHeight >
\* rearHeight; each rectangle's top width equals its bottom width; for
\* numFolds >= 2 fold 0 has width frontHeight and the last fold rearHeight.
Thm_C7_RectangleTaper ==
    \A face \in RectangleFaces :
        FaceGenerated(face) =>
            /\ \A i \in FoldIndices(face) :
                  WidthTop(Quad(face, i)) = WidthBottom(Quad(face, i))
            /\ \A i, j \in FoldIndices(face) :
                  i < j =>
                    /\ RLt(front_h, rear_h) =>
                          RLe(WidthTop(Quad(face, i)), WidthTop(Quad(face, j)))
                    /\ RLt(rear_h, front_h) =>
                          RLe(WidthTop(Quad(face, j)), WidthTop(Quad(face, i)))
            /\ Len(FaceQuads(face)) >= 2 =>
                  /\ WidthTop(Quad(face, 0)) = front_h
                  /\ WidthTop(Quad(face, num_folds - 1)) = rear_h

\* C7 witness: a widening rectangle face of four folds or more with
\* strictly growing widths.
Wit_C7_WideningRectangles ==
    /\ FaceGenerated(2)
    /\ Len(FaceQuads(2)) >= 4
    /\ RLt(front_h, rear_h)
    /\ RLt(WidthTop(Quad(2, 1)), WidthTop(Quad(2, 2)))

\* The preconditions of the positive-area property.
ValidAreaInput ==
    /\ ValidPlanInput
    /\ RLe(front_w, rear_w)
    /\ RLe(front_h, rear_h)
    /\ RLe(RZero, chamfer)
    /\ RLt(RMul(FromInt(2), chamfer), front_w)
    /\ RLt(RMul(FromInt(2), chamfer), front_h)

\* top y above bottom y, and left x < right x on the top and bottom edges
PositiveArea(q) ==
    /\ RLt(QYTop(q), QYBottom(q))
    /\ RLt(q[1][1], q[2][1])
    /\ RLt(q[4][1], q[3][1])

\* C8: with frontWidth <= rearWidth, frontHeight <= rearHeight,
\* stiffenerHeight > 0 and 0 <= chamfer < min(frontWidth, frontHeight) / 2,
\* every quadrilateral of every face has positive area.
Cex_C8_PositiveArea ==
    ValidAreaInput =>
        \A face \in Faces :
            FaceGenerated(face) =>
                \A i \in FoldIndices(face) : PositiveArea(Quad(face, i))

\* C9: with frontWidth <= rearWidth, every even fold of a trapezoid face has
\* top width <= bottom width and every odd fold top width >= bottom width,
\* in normal pairs and in the last pair.
Thm_C9_OrientationByParity ==
    RLe(front_w, rear_w) =>
        \A face \in TrapezoidFaces :
            FaceGenerated(face) =>
                \A i \in FoldIndices(face) :
                    LET q == Quad(face, i) IN
                    IF i % 2 = 0
                    THEN RLe(WidthTop(q), WidthBottom(q))
                    ELSE RLe(WidthBottom(q), WidthTop(q))

\* C9 witness: a tapered face of two pairs or more whose first fold widens
\* downward and whose last fold narrows downward.
Wit_C9_BothOrientations ==
    /\ FaceGenerated(3)
    /\ Len(FaceQuads(3)) >= 4
    /\ RLt(front_w, rear_w)
    /\ RLt(WidthTop(Quad(3, 0)), WidthBottom(Quad(3, 0)))
    /\ RLt(WidthBottom(Quad(3, num_folds - 1)), WidthTop(Quad(3, num_folds - 1)))

\* C10: for every face and fold i the top y relative to the margin is
\* i x foldCycle and the bottom y is top y + stiffenerHeight; with
\* gapHeight >= 0 the bottom of fold i is not below the top of fold i + 1 and
\* is separated from it by exactly gapHeight, and the bottom of the last
\* fold does not exceed margin + totalLength, so that for a valid plan every
\* stiffener lies between margin and the canvas height totalLength + 2 x
\* margin.
Thm_C10_VerticalPlacement ==
    \A face \in Faces :
        FaceGenerated(face) =>
            LET cycle  == RAdd(stiffener_height, gap_height)
                n      == Len(FaceQuads(face))
                canvas == IF IsCombined THEN files[1].canvas_height
                                        ELSE files[face].canvas_height
            IN
            /\ canvas = RAdd(total_length, RMul(FromInt(2), margin))
            /\ \A i \in FoldIndices(face) :
                  LET q == Quad(face, i) IN
                  /\ RSub(QYTop(q), margin) = RMul(FromInt(i), cycle)
                  /\ QYBottom(q) = RAdd(QYTop(q), stiffener_height)
                  /\ q[2][2] = q[1][2]
                  /\ q[4][2] = q[3][2]
            /\ RLe(RZero, gap_height) =>
                  /\ \A i \in 0..(n - 2) :
                        /\ RLe(QYBottom(Quad(face, i)), QYTop(Quad(face, i + 1)))
                        /\ RSub(QYTop(Quad(face, i + 1)), QYBottom(Quad(face, i)))
                              = gap_height
                  /\ n >= 1 =>
                        RLe(QYBottom(Quad(face, n - 1)), RAdd(margin, total_length))
            /\ ValidPlanInput =>
                  \A i \in FoldIndices(face) :
                      /\ RLe(margin, QYTop(Quad(face, i)))
                      /\ RLe(QYBottom(Quad(face, i)), RSub(canvas, margin))
                      /\ RLe(QYBottom(Quad(face, i)), canvas)

\* C10 witness: a face of two folds or more with a positive gap and a
\* positive margin.
Wit_C10_StackedFolds ==
    /\ FaceGenerated(4)
    /\ Len(FaceQuads(4)) >= 2
    /\ RLt(RZero, gap_height)
    /\ RLt(RZero, margin)
    /\ RLt(QYBottom(Quad(4, 0)), QYTop(Quad(4, 1)))

\* min(frontWidth, rearWidth) <= w <= max(frontWidth, rearWidth)
InsideTaper(w) ==
    LET lo == IF RLe(front_w, rear_w) THEN front_w ELSE rear_w
        hi == IF RLe(front_w, rear_w) THEN rear_w ELSE front_w
    IN  RLe(lo, w) /\ RLe(w, hi)

\* C11: for a valid plan with numFolds >= 2, the single pair numFolds = 2
\* included, the top width and the bottom width of every fold of a trapezoid
\* face lie between min(frontWidth, rearWidth) and max(frontWidth,
\* rearWidth) inclusive.
Cex_C11_WidthsInsideTaper ==
    \A face \in TrapezoidFaces :
        (FaceGenerated(face) /\ ValidPlanInput /\ num_folds >= 2) =>
            \A i \in FoldIndices(face) :
                /\ InsideTaper(WidthTop(Quad(face, i)))
                /\ InsideTaper(WidthBottom(Quad(face, i)))

====
